---- MODULE Spec2Model ----
(***************************************************************************)
(* Turn-taking engine of the voice agent (src/server).                     *)
(*                                                                         *)
(* The model follows the asyncio structure of the code: one action is the  *)
(* code that runs between two genuine suspension points (a network call,   *)
(* an asyncio.sleep, the await of a cancelled task).  Awaits on the        *)
(* asyncio locks never suspend, because no lock is held across a           *)
(* suspension point, so a handler chain started by EventBus.emit runs      *)
(* inline, in subscription order, inside the emitting action.              *)
(*                                                                         *)
(* Wall-clock time (datetime.now, asyncio.sleep) is counted in ticks of    *)
(* TickMs milliseconds; timestamps are kept as ages.                       *)
(*                                                                         *)
(* Spec is the conversation once the first transcriber chunk has been      *)
(* transcribed; TranscriptionSpec is the transcription coordinator from    *)
(* start-up, and SttSpec the same with the STT client's API calls (a       *)
(* request is one action there, and its backoff sleeps are recorded in     *)
(* stt.slept); StartupSpec is main.startup under every configuration the   *)
(* field validators admit; DisconnectSpec is the transcription            *)
(* coordinator and the audio pipeline with a peer that disconnects;        *)
(* SelectionsSpec is the selector from start-up under a changing context.  *)
(***************************************************************************)
EXTENDS Integers, Sequences, FiniteSets, TLC

VARIABLES
    cm,       \* ConversationManager.context
    vad,      \* VADProcessor fields, and where the VAD loop task is suspended
    btc,      \* BackchannelTimingController fields and its live timer tasks
    sel,      \* BackchannelSelector fields
    rc,       \* position of ResponseCoordinator.generate_and_play_response
    tco,      \* TranscriptionCoordinator fields and in-flight STT requests
    mix,      \* AudioMixer channel buffers (clips submitted)
    lib,      \* BackchannelLibrary.backchannels (names loaded at start-up)
    now,      \* ticks of wall-clock time since start-up
    bus,      \* an EventBus: the subscribers of one event type and its deliveries
    pipe,     \* AudioPipeline: samples received, VAD accumulator, chunks yielded
    boot,     \* Config weights and how far main.startup has come
    stt,      \* STTClient: the Whisper API calls and sleeps of the last request
    rtc,      \* WebRTCHandler.pcs and the connection state of the peer
    emitted   \* events passed to EventBus.emit by the last action, in order

vars == <<cm, vad, btc, sel, rc, tco, mix, lib, now, bus, pipe, boot, stt, rtc, emitted>>

-----------------------------------------------------------------------------
(* Bounds of the model *)

MaxNest == 1       \* selector invocations nested under one BACKCHANNEL_TRIGGERED
MaxTimers == 3     \* live safe-zone timer tasks
MaxLog == 3        \* transcript segments
MaxChunks == 3     \* transcriber chunks dispatched
MaxPlays == 2      \* backchannel events recorded
MaxTicks == 11     \* ticks of wall-clock time
MaxDepth == 2      \* emits nested inside one another before the interpreter's limit
MaxEvents == 3     \* events emitted on the EventBus of BusSpec
MaxSamples == 7    \* samples received by the audio pipeline
MaxFrame == 3      \* samples in one call of receive_audio
ChunkSamples == 2  \* samples in a VAD chunk (480 in the program, at 16 kHz and 30 ms)
WhisperChunkSamples == 3    \* samples in a transcriber chunk (24 000 in the program)
WhisperOverlapSamples == 1  \* samples two transcriber chunks share (8 000 in the program)
MaxWords == 4      \* words of a transcript handed to the linguistic analyzer

(* Program constants *)

SpeechStartThreshold == 3
SpeechEndThreshold == 5
MinSilenceMs == 300
ShortPauseMs == 400
MidPauseMs == 700
MediumPauseMs == 1000
LongPauseMs == 1500
TurnEndThreshold == 65
ContinueThreshold == 40
MaxRetries == 3
BaseDelay == 1
SilenceWeight == 40
LinguisticWeight == 35
ContextWeight == 25
TriggerMinMs == 300
TriggerMaxMs == 700
MinIntervalMs == 5000
RecentIntervalMs == 8000
SafeZoneMs == 300
RecentLen == 3
DedupWindow == 3

None == "none"
Never == -1        \* a timestamp that is None

(* The clock's tick: the largest unit that divides the durations the code  *)
(* compares wall-clock time with                                           *)
RECURSIVE Gcd(_, _)
Gcd(a, b) == IF b = 0 THEN a ELSE Gcd(b, a % b)

TickMs ==
    Gcd(Gcd(Gcd(MinSilenceMs, ShortPauseMs), Gcd(MidPauseMs, MediumPauseMs)),
        Gcd(Gcd(LongPauseMs, SafeZoneMs), Gcd(MinIntervalMs, RecentIntervalMs)))

-----------------------------------------------------------------------------
(* Text.  A text is a sequence of whitespace-separated tokens; a token is   *)
(* a word, the punctuation mark attached to its end ("" for none) and      *)
(* whether it has an upper-case letter.                                    *)

Tok(w, p, c) == [w |-> w, p |-> p, c |-> c]

Lower(text) == [i \in 1..Len(text) |-> [text[i] EXCEPT !.c = FALSE]]

Join(a, b) == a \o b

TerminalMarks == {".", "?", "!"}

ContinuationWords ==
    {"and", "so", "but", "um", "uh", "like", "or", "because",
     "then", "well", "actually", "basically"}

QuestionWords ==
    {"what", "when", "where", "who", "whom", "whose", "why", "which", "how",
     "is", "are", "was", "were", "do", "does", "did", "can", "could",
     "will", "would", "should", "shall", "may", "might", "must"}

CommonVerbs ==
    {"is", "are", "was", "were", "am", "be", "been", "being",
     "have", "has", "had", "do", "does", "did",
     "can", "could", "will", "would", "should", "shall",
     "may", "might", "must",
     "go", "goes", "went", "going", "get", "gets", "got", "getting",
     "make", "makes", "made", "making", "know", "knows", "knew", "knowing",
     "think", "thinks", "thought", "thinking", "see", "sees", "saw", "seeing",
     "want", "wants", "wanted", "wanting", "need", "needs", "needed", "needing"}

EmotionKeywords ==
    {"amazing", "terrible", "wonderful", "awful", "excited",
     "frustrated", "happy", "sad", "angry", "love", "hate"}

SelectorEmotionWords ==
    {"amazing", "terrible", "wonderful", "awful", "excited", "love", "hate"}

SelectorQuestionPrefixes == {"what", "when", "where", "who", "why", "how"}

(* str.count('.') + str.count('?') + str.count('!') *)
RECURSIVE CountMarks(_)
CountMarks(text) ==
    IF text = <<>> THEN 0
    ELSE (IF Head(text).p \in TerminalMarks THEN 1 ELSE 0) + CountMarks(Tail(text))

ends_with_punctuation(text) ==
    Len(text) > 0 /\ text[Len(text)].p \in TerminalMarks

(* words[-1].rstrip('.,!?;:') in continuation_words; the entry "you know"  *)
(* of the configured list holds a space and matches no single token        *)
last_word_is_continuation(text) ==
    Len(text) > 0 /\ text[Len(text)].w \in ContinuationWords

is_question(text) ==
    \/ Len(text) > 0 /\ text[Len(text)].p = "?"
    \/ Len(text) > 0 /\ text[1].p = "" /\ text[1].w \in QuestionWords

count_sentences(text) ==
    IF CountMarks(text) = 0 /\ Len(text) > 0 THEN 1 ELSE CountMarks(text)

has_subject_and_verb(text) ==
    IF Len(text) < 2 THEN FALSE
    ELSE \/ \E i \in 1..Len(text) : text[i].w \in CommonVerbs
         \/ Len(text) >= 3

Min(a, b) == IF a < b THEN a ELSE b
Max(a, b) == IF a > b THEN a ELSE b

(* Faulty variant: a continuation word at the end is not penalised *)
calculate_score_unpenalised(text) ==
    Min(100,
        (IF ends_with_punctuation(text) THEN 40 ELSE 0)
      + (IF has_subject_and_verb(text) THEN 20 ELSE 0)
      + (IF count_sentences(text) >= 1 /\ ends_with_punctuation(text) THEN 30 ELSE 0)
      + (IF is_question(text) /\ ends_with_punctuation(text) THEN 10 ELSE 0))

calculate_score(text) ==
    IF last_word_is_continuation(text) THEN 30
    ELSE Min(100,
             (IF ends_with_punctuation(text) THEN 40 ELSE 0)
           + (IF has_subject_and_verb(text) THEN 20 ELSE 0)
           + (IF count_sentences(text) >= 1 /\ ends_with_punctuation(text) THEN 30 ELSE 0)
           + (IF is_question(text) /\ ends_with_punctuation(text) THEN 10 ELSE 0))

analyze_completeness(text) ==
    IF Len(text) = 0 THEN 0
    ELSE IF Len(text) < 3 THEN 20
    ELSE calculate_score(text)

-----------------------------------------------------------------------------
(* Sample utterances the speech-to-text and LLM collaborators return *)

TxtQuestion ==
    <<Tok("what", "", TRUE), Tok("time", "", FALSE), Tok("is", "", FALSE),
      Tok("it", "?", FALSE)>>

TxtStory ==
    <<Tok("it", "", TRUE), Tok("was", "", FALSE), Tok("amazing", ".", FALSE),
      Tok("we", "", TRUE), Tok("stayed", ".", FALSE), Tok("so", "", TRUE)>>

TxtNarrative ==
    <<Tok("it", "", TRUE), Tok("was", "", FALSE), Tok("amazing", "", FALSE),
      Tok("there", ".", FALSE), Tok("we", "", TRUE), Tok("stayed", "", FALSE),
      Tok("late", ".", FALSE)>>

TxtReply == <<Tok("sure", ".", TRUE)>>

TxtEcho == <<Tok("what", "", FALSE), Tok("time", "", FALSE)>>

TxtStoryBut ==
    <<Tok("it", "", TRUE), Tok("was", "", FALSE), Tok("amazing", ".", FALSE),
      Tok("we", "", TRUE), Tok("stayed", ".", FALSE), Tok("but", "", TRUE)>>

TxtStore ==
    <<Tok("i", "", TRUE), Tok("was", "", FALSE), Tok("going", "", FALSE),
      Tok("to", "", FALSE), Tok("the", "", FALSE), Tok("store", "", FALSE)>>

TxtYesterday ==
    <<Tok("going", "", FALSE), Tok("to", "", FALSE), Tok("the", "", FALSE),
      Tok("store", "", FALSE), Tok("yesterday", "", FALSE)>>

SttTexts == {TxtQuestion, TxtStory, TxtEcho, TxtStoryBut, TxtStore, TxtYesterday}

TxtNeutral == <<Tok("we", "", TRUE), Tok("went", "", FALSE), Tok("home", ".", FALSE)>>

-----------------------------------------------------------------------------
(* Values *)

IDLE == "idle"
USER_SPEAKING == "user_speaking"
EVALUATING_PAUSE == "evaluating_pause"
AGENT_THINKING == "agent_thinking"
AGENT_SPEAKING == "agent_speaking"

ConversationState ==
    {IDLE, USER_SPEAKING, EVALUATING_PAUSE, AGENT_THINKING, AGENT_SPEAKING}

NOT_SPEAKING == "not_speaking"
SPEAKING == "speaking"
SILENCE_AFTER_SPEECH == "silence_after_speech"

Kinds == {"mmhmm", "okay", "yeah", "i_see", "right"}

(* Tick counts of the durations the code compares wall-clock time with *)
SafeZoneTicks == SafeZoneMs \div TickMs
SilenceCap == LongPauseMs \div TickMs
BackchannelCap == RecentIntervalMs \div TickMs

(* Config and main.startup.  A weight is held in hundredths; the field     *)
(* validators admit each weight between 0 and 1.                           *)
WeightChoices == {0, 25, 35, 40}

Weights(s, l, c) == [silence_weight |-> s, linguistic_weight |-> l, context_weight |-> c]

Configs == {Weights(s, l, c) : s \in WeightChoices, l \in WeightChoices, c \in WeightChoices}

(* validate_all: TRUE where it returns True, FALSE where it raises ValueError *)
validate_all(c) ==
    LET weight_sum == c.silence_weight + c.linguistic_weight + c.context_weight
    IN  99 <= weight_sum /\ weight_sum <= 101

Components ==
    {"conversation_manager", "audio_pipeline", "audio_mixer", "vad_processor",
     "stt_client", "transcription_coordinator", "linguistic_analyzer",
     "turn_detector", "backchannel_library", "backchannel_trigger",
     "backchannel_selector", "backchannel_timing", "backchannel_player",
     "llm_client", "tts_client", "response_coordinator", "webrtc_handler"}

Unstarted(c) == [config |-> c, error |-> FALSE, components |-> {}, pc |-> "start"]

(* main.startup: the ValueError of validate_all is caught and printed, and  *)
(* the components are built and started whether it was raised or not        *)
startup(b) ==
    [b EXCEPT !.error = ~validate_all(b.config),
              !.components = Components,
              !.pc = "running"]

(* the process started with the default configuration *)
Booted == startup(Unstarted(Weights(SilenceWeight, LinguisticWeight, ContextWeight)))

(* An event handed to EventBus.emit: its type, the component that emitted  *)
(* it, and the payload fields the handlers and the properties read         *)
Ev(type, by, s1, s2, n) == [type |-> type, by |-> by, s1 |-> s1, s2 |-> s2, n |-> n]

(* The program state a handler chain works on; out collects the events it  *)
(* emits                                                                   *)
World ==
    [cm |-> cm, vad |-> vad, btc |-> btc, sel |-> sel, rc |-> rc, tco |-> tco,
     mix |-> mix, stt |-> stt, out |-> <<>>, ok |-> TRUE]

Commit(w) ==
    /\ cm' = w.cm
    /\ vad' = w.vad
    /\ btc' = w.btc
    /\ sel' = w.sel
    /\ rc' = w.rc
    /\ tco' = w.tco
    /\ mix' = w.mix
    /\ stt' = w.stt
    /\ emitted' = w.out
    /\ lib' = lib
    /\ bus' = bus
    /\ pipe' = pipe
    /\ boot' = boot
    /\ rtc' = rtc

Out(w, ev) == [w EXCEPT !.out = Append(@, ev)]

-----------------------------------------------------------------------------
(* ConversationManager *)

(* update_state: assigns the new state and emits STATE_CHANGED, whatever   *)
(* the old state is                                                        *)
update_state(w, new_state, by) ==
    Out([w EXCEPT !.cm.state = new_state],
        Ev("STATE_CHANGED", by, w.cm.state, new_state, 0))

Segment(text, is_final, speaker) ==
    [text |-> text, is_final |-> is_final, speaker |-> speaker]

add_transcript(w, text, is_final, speaker) ==
    LET appended == [w EXCEPT !.cm.log = Append(@, Segment(text, is_final, speaker))]
    IN  IF speaker = "user" /\ is_final
        THEN [appended EXCEPT
                 !.cm.wc = @ + Len(text),
                 !.cm.sc = @ + Max(1, CountMarks(text))]
        ELSE appended

record_backchannel(w, kind) ==
    [w EXCEPT !.cm.history = Append(@, kind), !.cm.last_backchannel = 0]

reset_turn(w) ==
    [w EXCEPT !.cm.speech_start = Never, !.cm.wc = 0, !.cm.sc = 0]

(* the final user segments after the last agent segment, joined *)
RECURSIVE CurrentTurn(_)
CurrentTurn(log) ==
    IF log = <<>> THEN <<>>
    ELSE LET last == log[Len(log)]
             rest == SubSeq(log, 1, Len(log) - 1)
         IN  IF last.speaker = "agent" THEN <<>>
             ELSE IF last.speaker = "user" /\ last.is_final
                  THEN Join(CurrentTurn(rest), last.text)
                  ELSE CurrentTurn(rest)

get_user_transcript_current_turn(w) == CurrentTurn(w.cm.log)

(* seconds since current_user_speech_start, 0 when it is None; in ms *)
get_user_speaking_duration(w) ==
    IF w.cm.speech_start = Never THEN 0 ELSE w.cm.speech_start * TickMs

-----------------------------------------------------------------------------
(* BackchannelPlayer *)

(* Faulty variant: the clip is treated as agent speech *)
play_backchannel_speaking(w, kind) ==
    IF kind \notin lib
    THEN w
    ELSE Out(update_state(
                 record_backchannel([w EXCEPT !.mix.secondary = Append(@, kind)], kind),
                 AGENT_SPEAKING, "player"),
             Ev("BACKCHANNEL_PLAYED", "player", kind, "", 0))

(* Faulty variant: the backchannel is recorded and announced whether or    *)
(* not the library holds its clip                                          *)
play_backchannel_unchecked(w, kind) ==
    Out(record_backchannel(
            [w EXCEPT !.mix.secondary = IF kind \in lib THEN Append(@, kind) ELSE @], kind),
        Ev("BACKCHANNEL_PLAYED", "player", kind, "", 0))

play_backchannel(w, kind) ==
    IF kind \notin lib
    THEN w
    ELSE Out(record_backchannel([w EXCEPT !.mix.secondary = Append(@, kind)], kind),
             Ev("BACKCHANNEL_PLAYED", "player", kind, "", 0))

player_on_backchannel_triggered(w, kind, proceed) ==
    IF ~proceed THEN w
    ELSE IF kind # None THEN play_backchannel(w, kind)
    ELSE w

-----------------------------------------------------------------------------
(* BackchannelTimingController.  timers[r] is the number of live           *)
(* _safe_zone_countdown tasks whose sleep ends in r ticks; task is the r   *)
(* of the one self.safe_zone_task refers to.                               *)

NoTimers == [r \in 0..SafeZoneTicks |-> 0]

RECURSIVE SumTo(_, _)
SumTo(f, r) == IF r < 0 THEN 0 ELSE f[r] + SumTo(f, r - 1)

TimerCount(t) == SumTo(t, SafeZoneTicks)

start_safe_zone_timer(w, kind) ==
    [w EXCEPT !.btc.pending = kind,
              !.btc.waiting = TRUE,
              !.btc.timers[SafeZoneTicks] = @ + 1,
              !.btc.task = SafeZoneTicks]

timing_on_backchannel_triggered(w, kind) ==
    IF kind = None THEN w ELSE start_safe_zone_timer(w, kind)

(* abort_backchannel up to its await of the cancelled task *)
abort_backchannel_cancel(w) ==
    LET cancelled ==
            IF w.btc.task # Never
            THEN [w EXCEPT !.btc.timers[w.btc.task] = @ - 1]
            ELSE w
    IN  [cancelled EXCEPT !.btc.abort_kind = w.btc.pending, !.vad.pc = "aborting"]

(* abort_backchannel after the await *)
abort_backchannel_finish(w) ==
    Out([w EXCEPT !.btc.pending = None,
                  !.btc.waiting = FALSE,
                  !.btc.task = Never,
                  !.btc.abort_kind = None,
                  !.vad.pc = "run"],
        Ev("BACKCHANNEL_ABORTED", "timing", w.btc.abort_kind, "user_resumed_speaking", 0))

timing_on_speech_started(w) ==
    IF w.btc.waiting /\ w.btc.pending # None
    THEN abort_backchannel_cancel(w)
    ELSE w

-----------------------------------------------------------------------------
(* BackchannelSelector *)

StartsWithQuestionWord(text) ==
    Len(text) > 0 /\ text[1].w \in SelectorQuestionPrefixes

ContainsEmotionWord(text) ==
    \E i \in 1..Len(text) : text[i].w \in SelectorEmotionWords

(* Faulty variant: the emotional context has the one candidate its comment *)
(* names                                                                   *)
get_candidates_single(text) ==
    IF (Len(text) > 0 /\ text[Len(text)].p = "?") \/ StartsWithQuestionWord(text)
    THEN {"right", "i_see"}
    ELSE IF ContainsEmotionWord(text)
    THEN {"yeah"}
    ELSE {"mmhmm", "okay", "i_see"}

get_candidates(text) ==
    IF (Len(text) > 0 /\ text[Len(text)].p = "?") \/ StartsWithQuestionWord(text)
    THEN {"right", "i_see"}
    ELSE IF ContainsEmotionWord(text)
    THEN {"yeah", "right"}
    ELSE {"mmhmm", "okay", "i_see"}

(* Faulty variant: nothing is removed from the candidates *)
apply_no_repetition_filter(recent, candidates) == candidates

apply_anti_repetition(recent, candidates) ==
    LET n == Len(recent)
        first == IF n > 0 THEN candidates \ {recent[n]} ELSE candidates
    IN  IF n >= 2 /\ recent[n] = recent[n - 1] THEN first \ {recent[n]} ELSE first

(* the kinds random.choices can return: every weight is positive *)
select_backchannel(recent, text) ==
    LET filtered == apply_anti_repetition(recent, get_candidates(text))
    IN  IF filtered = {} THEN Kinds ELSE filtered

record_usage(w, kind) ==
    [w EXCEPT !.sel.recent =
        IF Len(@) >= RecentLen THEN Append(Tail(@), kind) ELSE Append(@, kind)]

-----------------------------------------------------------------------------
(* EventBus.emit of a BACKCHANNEL_TRIGGERED event to its subscribers, in    *)
(* the order main.startup constructs them: selector, timing controller,    *)
(* player.  The selector handles every BACKCHANNEL_TRIGGERED event and     *)
(* emits another one from inside its handler, so the delivery nests until  *)
(* the interpreter raises RecursionError, which emit logs before it goes   *)
(* on to the next subscriber.  picks are the kinds the nested selector     *)
(* runs draw, outermost first; their number is the nesting depth reached.  *)

RECURSIVE emit_backchannel_triggered(_, _, _, _)
emit_backchannel_triggered(w, kind, proceed, picks) ==
    LET text == get_user_transcript_current_turn(w)
        pick == Head(picks)
        selected ==
            Out(record_usage([w EXCEPT !.ok = @ /\ pick \in select_backchannel(w.sel.recent, text)],
                             pick),
                Ev("BACKCHANNEL_TRIGGERED", "selector", pick, "", 0))
        w1 == IF picks = <<>> THEN w
              ELSE emit_backchannel_triggered(selected, pick, FALSE, Tail(picks))
        w2 == timing_on_backchannel_triggered(w1, kind)
    IN  player_on_backchannel_triggered(w2, kind, proceed)

(* _safe_zone_countdown after its sleep *)
proceed_to_playback(w, picks) ==
    LET kind == w.btc.pending
        cleared == [w EXCEPT !.btc.pending = None, !.btc.waiting = FALSE, !.btc.task = Never,
                             !.ok = @ /\ picks # <<>>]
    IN  emit_backchannel_triggered(
            Out(cleared, Ev("BACKCHANNEL_TRIGGERED", "timing", kind, "proceed", 0)),
            kind, TRUE, picks)

safe_zone_countdown(w, picks) ==
    IF w.btc.waiting /\ w.btc.pending # None
    THEN proceed_to_playback(w, picks)
    ELSE [w EXCEPT !.ok = @ /\ picks = <<>>]

-----------------------------------------------------------------------------
(* BackchannelTriggerDetector *)

(* context.get_time_since_last_backchannel() in ms; ages stop at           *)
(* BackchannelCap, past every duration they are compared with              *)
SinceLastBackchannel(w) == w.cm.last_backchannel * TickMs

(* Faulty variant: the silence may have any length *)
check_trigger_conditions_any_silence(w, silence_duration_ms) ==
    /\ w.cm.state = USER_SPEAKING
    /\ (w.cm.last_backchannel = Never \/ SinceLastBackchannel(w) >= MinIntervalMs)
    /\ w.cm.sc >= 2
    /\ Len(get_user_transcript_current_turn(w)) >= 5

check_trigger_conditions(w, silence_duration_ms) ==
    /\ w.cm.state = USER_SPEAKING
    /\ TriggerMinMs <= silence_duration_ms /\ silence_duration_ms <= TriggerMaxMs
    /\ (w.cm.last_backchannel = Never \/ SinceLastBackchannel(w) >= MinIntervalMs)
    /\ w.cm.sc >= 2
    /\ Len(get_user_transcript_current_turn(w)) >= 5

detect_emotion_keywords(text) ==
    \E i \in 1..Len(text) : text[i].p = "" /\ text[i].w \in EmotionKeywords

(* the configured prompt phrases, as they fall on tokens *)
detect_explicit_prompts(text) ==
    \E i \in 1..Len(text) :
        /\ text[i].p = "?"
        /\ \/ text[i].w \in {"right", "understand"}
           \/ /\ i > 1
              /\ text[i - 1].p = ""
              /\ <<text[i - 1].w, text[i].w>> \in
                    {<<"you", "know">>, <<"isn't", "it">>, <<"you", "see">>,
                     <<"make", "sense">>, <<"you", "think">>}
              /\ (text[i].w = "think" => i > 2 /\ text[i - 2].p = "" /\ text[i - 2].w = "don't")

(* the probability in tenths *)
calculate_probability(w) ==
    LET text == get_user_transcript_current_turn(w)
        prob == 4
              + (IF detect_emotion_keywords(text) THEN 3 ELSE 0)
              + (IF detect_explicit_prompts(text) THEN 5 ELSE 0)
              - (IF w.cm.last_backchannel # Never /\ SinceLastBackchannel(w) < RecentIntervalMs
                 THEN 2 ELSE 0)
              - (IF get_user_speaking_duration(w) < 3000 THEN 3 ELSE 0)
              + (IF ends_with_punctuation(text) THEN 2 ELSE 0)
    IN  Max(0, Min(10, prob))

(* random.random() < probability, for a draw next to 0 ("low") or next to  *)
(* 1 ("high")                                                              *)
DrawBelow(draw, prob) == prob > 0 /\ (draw = "low" \/ prob >= 10)

(* a draw is read only when the gates pass and the probability is strictly *)
(* between 0 and 1                                                         *)
DrawMatters(w, d) ==
    check_trigger_conditions(w, d) /\ calculate_probability(w) \in 1..9

trigger_on_silence_detected(w, d, draw, picks) ==
    IF check_trigger_conditions(w, d) /\ DrawBelow(draw, calculate_probability(w))
    THEN emit_backchannel_triggered(
             Out([w EXCEPT !.ok = @ /\ picks # <<>> /\ (DrawMatters(w, d) \/ draw = "low")],
                 Ev("BACKCHANNEL_TRIGGERED", "trigger", None, "", d)),
             None, FALSE, picks)
    ELSE [w EXCEPT !.ok = @ /\ picks = <<>> /\ (DrawMatters(w, d) \/ draw = "low")]

-----------------------------------------------------------------------------
(* ResponseCoordinator *)

(* generate_and_play_response up to the LLM call *)
generate_and_play_response(w, d) ==
    [update_state(w, AGENT_THINKING, "response") EXCEPT !.rc.pc = "llm", !.rc.ev = d]

on_turn_ended(w, transcript, d) ==
    IF transcript = <<>> THEN w ELSE generate_and_play_response(w, d)

-----------------------------------------------------------------------------
(* TurnDetector *)

calculate_silence_score(duration_ms) ==
    IF duration_ms < ShortPauseMs THEN 10
    ELSE IF duration_ms < MidPauseMs THEN 20
    ELSE IF duration_ms < MediumPauseMs THEN 50
    ELSE IF duration_ms < LongPauseMs THEN 80
    ELSE 100

calculate_linguistic_score(w) ==
    LET transcript == get_user_transcript_current_turn(w)
    IN  IF transcript = <<>> THEN 0 ELSE analyze_completeness(transcript)

calculate_context_score(w) ==
    LET dur == get_user_speaking_duration(w)
        score == 50
               + (IF dur > 15000 THEN 20 ELSE IF dur < 2000 THEN -10 ELSE 0)
               - (IF w.cm.wc < 5 THEN 20 ELSE 0)
               + (IF w.cm.sc >= 2 THEN 10 ELSE 0)
    IN  Max(0, Min(100, score))

(* final_score times 100, with the weights TurnDetector.__init__ read from  *)
(* the configuration: 0.40, 0.35 and 0.25 by default                       *)
FinalScore(w, d) ==
    boot.config.silence_weight * calculate_silence_score(d)
  + boot.config.linguistic_weight * calculate_linguistic_score(w)
  + boot.config.context_weight * calculate_context_score(w)

(* Faulty variant: an ambiguous score gives the conversation up *)
make_turn_decision_idle(w, final, d) ==
    IF final > TurnEndThreshold * 100
    THEN on_turn_ended(
             Out(update_state(w, AGENT_THINKING, "turn_detector"),
                 Ev("TURN_ENDED", "turn_detector", "", "", final)),
             get_user_transcript_current_turn(w), d)
    ELSE IF ContinueThreshold * 100 < final /\ final <= TurnEndThreshold * 100
    THEN update_state(w, IDLE, "turn_detector")
    ELSE w

(* Faulty variant: the turn ends at the lower threshold *)
make_turn_decision_low(w, final, d) ==
    IF final > ContinueThreshold * 100
    THEN on_turn_ended(
             Out(update_state(w, AGENT_THINKING, "turn_detector"),
                 Ev("TURN_ENDED", "turn_detector", "", "", final)),
             get_user_transcript_current_turn(w), d)
    ELSE w

(* Faulty variant: the turn end is announced twice *)
make_turn_decision_twice(w, final, d) ==
    IF final > TurnEndThreshold * 100
    THEN LET ended == Out(update_state(w, AGENT_THINKING, "turn_detector"),
                          Ev("TURN_ENDED", "turn_detector", "", "", final))
             transcript == get_user_transcript_current_turn(w)
         IN  on_turn_ended(Out(on_turn_ended(ended, transcript, d),
                               Ev("TURN_ENDED", "turn_detector", "", "", final)),
                           transcript, d)
    ELSE IF ContinueThreshold * 100 < final /\ final <= TurnEndThreshold * 100
    THEN update_state(w, EVALUATING_PAUSE, "turn_detector")
    ELSE w

make_turn_decision(w, final, d) ==
    IF final > TurnEndThreshold * 100
    THEN on_turn_ended(
             Out(update_state(w, AGENT_THINKING, "turn_detector"),
                 Ev("TURN_ENDED", "turn_detector", "", "", final)),
             get_user_transcript_current_turn(w), d)
    ELSE IF ContinueThreshold * 100 < final /\ final <= TurnEndThreshold * 100
    THEN update_state(w, EVALUATING_PAUSE, "turn_detector")
    ELSE w

turn_detector_on_silence_detected(w, d) ==
    IF w.cm.state # USER_SPEAKING THEN w
    ELSE make_turn_decision(
             Out(w, Ev("TURN_EVALUATION", "turn_detector", "", "", FinalScore(w, d))),
             FinalScore(w, d), d)

(* Faulty variant: the trigger detector is subscribed first *)
emit_silence_detected_trigger_first(w, d, draw, picks) ==
    turn_detector_on_silence_detected(trigger_on_silence_detected(w, d, draw, picks), d)

(* EventBus.emit of SILENCE_DETECTED: the turn detector, then the trigger  *)
(* detector.  When the turn detector's handler is suspended in the         *)
(* response coordinator, the trigger detector runs once it returns.        *)
emit_silence_detected(w, d, draw, picks) ==
    LET w1 == turn_detector_on_silence_detected(w, d)
    IN  IF w1.rc.pc # "idle"
        THEN [w1 EXCEPT !.ok = @ /\ picks = <<>> /\ draw = "low"]
        ELSE trigger_on_silence_detected(w1, d, draw, picks)

(* the rest of that emit, once generate_and_play_response has returned *)
resume_silence_detected(w, draw, picks) ==
    trigger_on_silence_detected([w EXCEPT !.rc.pc = "idle", !.rc.ev = 0], w.rc.ev, draw, picks)

-----------------------------------------------------------------------------
(* VADProcessor.update_state.  The consecutive-chunk counters are only     *)
(* compared with their thresholds and stop counting there.                 *)

(* Faulty variant: the ongoing silence is reported whatever its length *)
heartbeat_always(silence_duration) == TRUE

(* the test that lets update_state report an ongoing silence *)
heartbeat_due(silence_duration) == silence_duration >= MinSilenceMs

(* Faulty variant: no hysteresis, one speech chunk starts speech *)
vad_update_state_eager(w, is_speech, draw, picks) ==
    LET counted == [w EXCEPT !.vad.cs = IF is_speech THEN Min(@ + 1, SpeechStartThreshold) ELSE 0,
                             !.vad.cq = IF is_speech THEN 0 ELSE Min(@ + 1, SpeechEndThreshold),
                             !.ok = @ /\ picks = <<>> /\ draw = "low"]
    IN  IF is_speech /\ w.vad.state # SPEAKING
        THEN timing_on_speech_started(
                 Out([counted EXCEPT !.vad.state = SPEAKING, !.vad.silence_start = Never],
                     Ev("SPEECH_STARTED", "vad", "", "", 0)))
        ELSE counted

vad_update_state(w, is_speech, draw, picks) ==
    LET cs == IF is_speech THEN Min(w.vad.cs + 1, SpeechStartThreshold) ELSE 0
        cq == IF is_speech THEN 0 ELSE Min(w.vad.cq + 1, SpeechEndThreshold)
        counted == [w EXCEPT !.vad.cs = cs, !.vad.cq = cq]
        quiet == [counted EXCEPT !.ok = @ /\ picks = <<>> /\ draw = "low"]
        silence_duration == w.vad.silence_start * TickMs
    IN  IF w.vad.state = NOT_SPEAKING
        THEN IF cs >= SpeechStartThreshold
             THEN timing_on_speech_started(
                      Out([quiet EXCEPT !.vad.state = SPEAKING, !.vad.silence_start = Never],
                          Ev("SPEECH_STARTED", "vad", "", "", 0)))
             ELSE quiet
        ELSE IF w.vad.state = SPEAKING
        THEN IF is_speech
             THEN Out(quiet, Ev("SPEECH_CONTINUING", "vad", "", "", 0))
             ELSE IF cq >= SpeechEndThreshold
                  THEN emit_silence_detected(
                           Out([counted EXCEPT !.vad.state = SILENCE_AFTER_SPEECH,
                                               !.vad.silence_start = 0],
                               Ev("SILENCE_DETECTED", "vad", "edge", "", 0)),
                           0, draw, picks)
                  ELSE quiet
        ELSE IF cs >= SpeechStartThreshold
             THEN timing_on_speech_started(
                      Out([quiet EXCEPT !.vad.state = SPEAKING, !.vad.silence_start = Never],
                          Ev("SPEECH_STARTED", "vad", "", "resumed", 0)))
             ELSE IF heartbeat_due(silence_duration)
                  THEN emit_silence_detected(
                           Out(counted, Ev("SILENCE_DETECTED", "vad", "heartbeat", "",
                                           silence_duration)),
                           silence_duration, draw, picks)
                  ELSE quiet

(* Faulty variant: reset leaves the start of the silence in place *)
reset_state_only(w) ==
    [w EXCEPT !.vad.state = NOT_SPEAKING, !.vad.cs = 0, !.vad.cq = 0]

(* VADProcessor.reset *)
reset(w) ==
    [w EXCEPT !.vad.state = NOT_SPEAKING, !.vad.silence_start = Never,
              !.vad.cs = 0, !.vad.cq = 0]

-----------------------------------------------------------------------------
(* TranscriptionCoordinator *)

RECURSIVE Overlap(_, _)
Overlap(a, b) ==
    IF a = <<>> \/ b = <<>> \/ [w |-> Head(a).w, p |-> Head(a).p] # [w |-> Head(b).w, p |-> Head(b).p]
    THEN 0
    ELSE 1 + Overlap(Tail(a), Tail(b))

Drop(text, n) == SubSeq(text, n + 1, Len(text))

(* more than 80% of the new words *)
Covers(count, words) == 5 * count > 4 * Len(words)

Remember(recent, text) ==
    IF Len(recent) + 1 > DedupWindow THEN Append(Tail(recent), text) ELSE Append(recent, text)

(* deduplicate: the text it returns; the window becomes Remember(recent, new_text) *)
deduplicate(recent, new_text) ==
    IF recent = <<>> THEN new_text
    ELSE LET new_words == Lower(new_text)
             n == Len(recent)
             window == IF n >= 2 THEN <<recent[n - 1], recent[n]>> ELSE <<recent[n]>>
             first == Overlap(new_words, Lower(window[1]))
             second == IF Len(window) > 1 THEN Overlap(new_words, Lower(window[2])) ELSE 0
         IN  IF Covers(first, new_words) THEN Drop(new_words, first)
             ELSE IF Covers(second, new_words) THEN Drop(new_words, second)
             ELSE new_words

(* _transcribe_and_handle after the STT call returned text for chunk id *)
transcribe_and_handle(w, id, text) ==
    LET done == [w EXCEPT !.tco.in_flight = @ \ {id}]
        new_text == deduplicate(w.tco.recent, text)
        seen == [done EXCEPT !.tco.recent = Remember(@, text),
                             !.tco.applied = Append(@, id)]
    IN  IF text = <<>> THEN done
        ELSE IF new_text = <<>> THEN seen
        ELSE add_transcript(seen, new_text, TRUE, "user")

-----------------------------------------------------------------------------
(* STTClient.  The Whisper API answers one call with a reply: the call     *)
(* raises, or it returns a transcript, which may be empty.  api holds the  *)
(* replies the successive calls of one request get, calls the calls made,  *)
(* slept the backoff sleeps in seconds, text what transcribe_chunk         *)
(* returned (the empty text for None).                                     *)

Reply(error, transcript) == [error |-> error, transcript |-> transcript]

Failure == Reply(TRUE, <<>>)

Replies == {Failure, Reply(FALSE, <<>>), Reply(FALSE, TxtQuestion), Reply(FALSE, TxtStory)}

(* _transcribe_internal: every exception of the API call is caught there   *)
(* and None is returned, so the call never raises to its caller            *)
transcribe_internal(reply) ==
    IF reply.error
    THEN [raised |-> FALSE, value |-> <<>>]
    ELSE [raised |-> FALSE, value |-> reply.transcript]

RECURSIVE retry_with_backoff(_, _, _)

(* retry_with_backoff from the given attempt (0 is the first): the result  *)
(* of the first call that does not raise; a raise is followed by a sleep   *)
(* of base_delay * 2^attempt, and on the last attempt by None              *)
retry_with_backoff(s, api, attempt) ==
    IF attempt >= MaxRetries THEN [s EXCEPT !.text = <<>>]
    ELSE LET called == [s EXCEPT !.calls = @ + 1]
             result == transcribe_internal(api[attempt + 1])
         IN  IF ~result.raised THEN [called EXCEPT !.text = result.value]
             ELSE IF attempt = MaxRetries - 1 THEN [called EXCEPT !.text = <<>>]
             ELSE retry_with_backoff(
                      [called EXCEPT !.slept = Append(@, BaseDelay * 2 ^ attempt)],
                      api, attempt + 1)

(* transcribe_chunk with a client: the request, then the transcript event  *)
(* when a text came back                                                   *)
transcribe_chunk(w, api, is_final) ==
    LET done == retry_with_backoff(
                    [api |-> api, calls |-> 0, slept |-> <<>>, text |-> <<>>], api, 0)
        w1 == [w EXCEPT !.stt = done]
    IN  IF done.text # <<>>
        THEN Out(w1, Ev(IF is_final THEN "FINAL_TRANSCRIPT" ELSE "PARTIAL_TRANSCRIPT",
                        "stt_client", "", "", Len(done.text)))
        ELSE w1

-----------------------------------------------------------------------------
(* EventBus, for the subscribers of one event type.  A callback is known   *)
(* by what it does when it is called: it returns, it raises, it emits a    *)
(* further event of the same type (and raises RecursionError at the        *)
(* interpreter's limit), or it unsubscribes the other callback.  log       *)
(* holds the calls made, emits the emit calls with the subscriber list at  *)
(* the time of the call.                                                   *)

Callbacks == {1, 2}

Behaviours == {"return", "raise", "emit", "unsubscribe"}

BusWith(beh) == [subs |-> <<>>, beh |-> beh, log |-> <<>>, emits |-> <<>>]

Subscribed(b, cb) == \E i \in 1..Len(b.subs) : b.subs[i] = cb

subscribe(b, cb) ==
    IF Subscribed(b, cb) THEN b ELSE [b EXCEPT !.subs = Append(@, cb)]

unsubscribe(b, cb) ==
    [b EXCEPT !.subs = SelectSeq(@, LAMBDA c : c # cb)]

RECURSIVE emit(_, _, _)
RECURSIVE deliver_unguarded(_, _, _, _, _)
RECURSIVE deliver(_, _, _, _, _)

(* EventBus.emit called by the emitter by, depth emits deep *)
emit(b, by, depth) ==
    LET ev == Len(b.emits) + 1
    IN  deliver([b EXCEPT !.emits = Append(@, [ev |-> ev, by |-> by, subs |-> b.subs])],
                ev, b.subs, 1, depth)

(* Faulty variant: no try/except around the call, a raise ends the loop *)
deliver_unguarded(b, ev, subscribers, i, depth) ==
    IF i > Len(subscribers) THEN b
    ELSE LET cb == subscribers[i]
             called == [b EXCEPT !.log = Append(@, [cb |-> cb, ev |-> ev])]
         IN  IF b.beh[cb] = "raise" \/ (b.beh[cb] = "emit" /\ depth >= MaxDepth)
             THEN called
             ELSE deliver(IF b.beh[cb] = "emit" THEN emit(called, cb, depth + 1)
                          ELSE IF b.beh[cb] = "unsubscribe"
                          THEN unsubscribe(called, CHOOSE c \in Callbacks : c # cb)
                          ELSE called,
                          ev, subscribers, i + 1, depth)

(* the loop of emit over its copy of the subscriber list, from position i *)
deliver(b, ev, subscribers, i, depth) ==
    IF i > Len(subscribers) THEN b
    ELSE LET cb == subscribers[i]
             called == [b EXCEPT !.log = Append(@, [cb |-> cb, ev |-> ev])]
             done == IF b.beh[cb] = "emit" /\ depth < MaxDepth
                     THEN emit(called, cb, depth + 1)
                     ELSE IF b.beh[cb] = "unsubscribe"
                     THEN unsubscribe(called, CHOOSE c \in Callbacks : c # cb)
                     ELSE called
         IN  deliver(done, ev, subscribers, i + 1, depth)

-----------------------------------------------------------------------------
(* AudioPipeline: the VAD accumulator.  received is the stream of mono     *)
(* samples handed to receive_audio, yielded the chunks get_vad_chunks has  *)
(* produced.                                                               *)

Levels == {0, 1}

NoAudio ==
    [received |-> <<>>, vad_accumulator |-> <<>>, yielded |-> <<>>,
     whisper_accumulator |-> <<>>, whisper_yielded |-> <<>>]

receive_audio(p, audio_data) ==
    [p EXCEPT !.received = @ \o audio_data, !.vad_accumulator = @ \o audio_data,
              !.whisper_accumulator = @ \o audio_data]

(* Faulty variant: the accumulator moves on one sample too far *)
get_vad_chunks_skipping(p) ==
    [p EXCEPT !.yielded = Append(@, SubSeq(p.vad_accumulator, 1, ChunkSamples)),
              !.vad_accumulator = SubSeq(@, ChunkSamples + 2, Len(@))]

(* one turn of the generator's loop, entered while a whole chunk is held *)
get_vad_chunks(p) ==
    [p EXCEPT !.yielded = Append(@, SubSeq(p.vad_accumulator, 1, ChunkSamples)),
              !.vad_accumulator = SubSeq(@, ChunkSamples + 1, Len(@))]

(* Faulty variant: the accumulator moves on by a whole chunk *)
get_whisper_chunks_disjoint(p) ==
    [p EXCEPT !.whisper_yielded = Append(@, SubSeq(p.whisper_accumulator, 1, WhisperChunkSamples)),
              !.whisper_accumulator = SubSeq(@, WhisperChunkSamples + 1, Len(@))]

(* one turn of the generator's loop: the chunk is the head of the          *)
(* accumulator, which moves on by step_size, the chunk less the overlap    *)
get_whisper_chunks(p) ==
    LET step_size == WhisperChunkSamples - WhisperOverlapSamples
    IN  [p EXCEPT !.whisper_yielded = Append(@, SubSeq(p.whisper_accumulator, 1, WhisperChunkSamples)),
                  !.whisper_accumulator = SubSeq(@, step_size + 1, Len(@))]

-----------------------------------------------------------------------------
(* The state after main.startup *)

Libraries == {Kinds \ {"right"}}

Start ==
    [cm |-> [state |-> IDLE, log |-> <<>>, wc |-> 0, sc |-> 0,
             speech_start |-> Never, last_backchannel |-> Never, history |-> <<>>],
     vad |-> [state |-> NOT_SPEAKING, cs |-> 0, cq |-> 0, silence_start |-> Never,
              pc |-> "run"],
     btc |-> [pending |-> None, waiting |-> FALSE, task |-> Never, timers |-> NoTimers,
              abort_kind |-> None],
     sel |-> [recent |-> <<>>],
     rc |-> [pc |-> "idle", ev |-> 0],
     tco |-> [in_flight |-> {}, next |-> 1, recent |-> <<>>, applied |-> <<>>],
     mix |-> [primary |-> 0, secondary |-> <<>>],
     stt |-> [api |-> <<>>, calls |-> 0, slept |-> <<>>, text |-> <<>>],
     out |-> <<>>, ok |-> TRUE]

(* WebRTCHandler with the peer connection of one offer *)
Connected == [pcs |-> {"pc"}, connectionState |-> "connected"]

(* on_connectionstatechange for a connection that failed or was closed:    *)
(* close_peer_connection closes it and drops it from pcs                    *)
close_peer_connection(r, state) ==
    [r EXCEPT !.pcs = @ \ {"pc"}, !.connectionState = "closed"]

BeginWith(w, b, c) ==
    /\ boot = c
    /\ rtc = Connected
    /\ bus = b
    /\ pipe = NoAudio
    /\ stt = w.stt
    /\ cm = w.cm
    /\ vad = w.vad
    /\ btc = w.btc
    /\ sel = w.sel
    /\ rc = w.rc
    /\ tco = w.tco
    /\ mix = w.mix
    /\ lib \in Libraries
    /\ now = 0
    /\ emitted = <<>>

Begin(w, b) == BeginWith(w, b, Booted)

Quiet == BusWith([cb \in Callbacks |-> "return"])

Init == Begin(Start, Quiet)

(* The program once the first transcriber chunk has been dispatched and    *)
(* its text applied, before any audio reaches the VAD loop                 *)
HeardTexts == {TxtQuestion, TxtStory, TxtNarrative}

Heard ==
    \E text \in HeardTexts :
        Begin(transcribe_and_handle(
                  [Start EXCEPT !.tco.in_flight = {1}, !.tco.next = 2], 1, text),
              Quiet)

(* What the bounds allow *)
Bounded(w) ==
    /\ w.ok
    /\ TimerCount(w.btc.timers) <= MaxTimers
    /\ Len(w.cm.log) <= MaxLog
    /\ Len(w.cm.history) <= MaxPlays

Draws == {"low", "high"}

(* The kinds n nested selector runs can draw, outermost first *)
RECURSIVE PickSeqs(_, _, _)
PickSeqs(recent, text, n) ==
    IF n = 0 THEN {<<>>}
    ELSE UNION {{<<k>> \o rest :
                    rest \in PickSeqs(IF Len(recent) >= RecentLen
                                      THEN Append(Tail(recent), k)
                                      ELSE Append(recent, k),
                                      text, n - 1)} :
                k \in select_backchannel(recent, text)}

Picks ==
    UNION {PickSeqs(sel.recent, CurrentTurn(cm.log), n) : n \in 0..MaxNest}

Step(w) == Bounded(w) /\ Commit(w) /\ now' = now

-----------------------------------------------------------------------------
(* Actions *)

(* Faulty variant: the loop goes on to the next chunk while a handler of    *)
(* the last emit is still suspended                                        *)
VADChunkDetached ==
    /\ vad.pc = "run"
    /\ \E is_speech \in BOOLEAN, draw \in Draws, picks \in Picks :
           Step(vad_update_state(World, is_speech, draw, picks))

(* vad_processing_loop: one chunk through VADProcessor.process_chunk *)
VADChunk ==
    /\ vad.pc = "run" /\ rc.pc = "idle"
    /\ \E is_speech \in BOOLEAN, draw \in Draws, picks \in Picks :
           Step(vad_update_state(World, is_speech, draw, picks))

(* abort_backchannel resumes once the cancelled timer task has ended *)
AbortResume ==
    /\ vad.pc = "aborting"
    /\ Step(abort_backchannel_finish(World))

(* a _safe_zone_countdown task wakes from its sleep *)
TimerFire ==
    /\ btc.timers[0] > 0
    /\ \E picks \in Picks :
           Step(safe_zone_countdown([World EXCEPT !.btc.timers[0] = @ - 1], picks))

(* the LLM stream ends: with text, or with none *)
LLMDone ==
    /\ rc.pc = "llm"
    /\ \E has_text \in BOOLEAN, draw \in Draws, picks \in Picks :
           IF has_text
           THEN Step([add_transcript(World, TxtReply, TRUE, "agent") EXCEPT
                        !.rc.pc = "tts",
                        !.ok = @ /\ picks = <<>> /\ draw = "low"])
           ELSE Step(resume_silence_detected(update_state(World, IDLE, "response"),
                                             draw, picks))

(* Faulty variant: a missing clip ends the response without a state update *)
TTSDoneStuck ==
    /\ rc.pc = "tts"
    /\ \E has_audio \in BOOLEAN, draw \in Draws, picks \in Picks :
           IF has_audio
           THEN Step([Out(update_state(World, AGENT_SPEAKING, "response"),
                          Ev("RESPONSE_STARTED", "response", "", "", 0)) EXCEPT
                        !.mix.primary = @ + 1,
                        !.rc.pc = "playing",
                        !.ok = @ /\ picks = <<>> /\ draw = "low"])
           ELSE Step(resume_silence_detected(World, draw, picks))

(* TTSClient.synthesize returns: a clip, or None *)
TTSDone ==
    /\ rc.pc = "tts"
    /\ \E has_audio \in BOOLEAN, draw \in Draws, picks \in Picks :
           IF has_audio
           THEN Step([Out(update_state(World, AGENT_SPEAKING, "response"),
                          Ev("RESPONSE_STARTED", "response", "", "", 0)) EXCEPT
                        !.mix.primary = @ + 1,
                        !.rc.pc = "playing",
                        !.ok = @ /\ picks = <<>> /\ draw = "low"])
           ELSE Step(resume_silence_detected(update_state(World, IDLE, "response"),
                                             draw, picks))

(* the playback sleep ends *)
PlaybackDone ==
    /\ rc.pc = "playing"
    /\ \E draw \in Draws, picks \in Picks :
           Step(resume_silence_detected(
                    update_state(reset_turn(Out(World, Ev("RESPONSE_ENDED", "response", "", "", 0))),
                                 IDLE, "response"),
                    draw, picks))

(* _coordination_loop starts the STT request of the next transcriber chunk *)
Dispatch ==
    /\ tco.next <= MaxChunks
    /\ Step([World EXCEPT !.tco.in_flight = @ \cup {tco.next}, !.tco.next = @ + 1])

(* an STT request returns: a text, or nothing *)
STTDone ==
    \E id \in tco.in_flight, text \in SttTexts \cup {<<>>} :
        Step(transcribe_and_handle(World, id, text))

Age(t, cap) == IF t = Never THEN Never ELSE Min(t + 1, cap)

(* the clock advances by one tick.  The await of the cancelled timer task  *)
(* in abort_backchannel ends within the event loop's next iterations, in   *)
(* less than a tick.                                                       *)
Tick ==
    /\ now < MaxTicks
    /\ vad.pc = "run"
    /\ now' = now + 1
    /\ LET w == [World EXCEPT
                    !.cm.last_backchannel = Age(@, BackchannelCap),
                    !.vad.silence_start = Age(@, SilenceCap),
                    !.btc.task = IF @ = Never THEN Never ELSE Max(@ - 1, 0),
                    !.btc.timers = [r \in 0..SafeZoneTicks |->
                                       IF r = 0 THEN @[0] + @[1]
                                       ELSE IF r = SafeZoneTicks THEN 0
                                       ELSE @[r + 1]]]
       IN  Bounded(w) /\ Commit(w)

(* No component wired by main.startup moves the state out of IDLE or out   *)
(* of EVALUATING_PAUSE.  A caller of the public mutator does, between two  *)
(* handler runs, with the transitions the state machine names for speech   *)
(* started and speech resumed.                                             *)
ExternalUpdateState ==
    /\ vad.pc = "run" /\ rc.pc = "idle"
    /\ cm.state \in {IDLE, EVALUATING_PAUSE}
    /\ Step(update_state(World, USER_SPEAKING, "external"))

(* The conversation: audio, timers and the response collaborators *)
Next ==
    \/ VADChunk
    \/ AbortResume
    \/ TimerFire
    \/ LLMDone
    \/ TTSDone
    \/ PlaybackDone
    \/ Tick
    \/ ExternalUpdateState

Spec == Heard /\ [][Next]_vars

(* The response collaborators return, and the playback sleep ends *)
FairSpec ==
    Spec /\ WF_vars(LLMDone) /\ WF_vars(TTSDone) /\ WF_vars(PlaybackDone)

(* The transcription coordinator alone, from start-up *)
NextTranscription ==
    \/ Dispatch
    \/ STTDone

TranscriptionSpec == Init /\ [][NextTranscription]_vars

(* the STT request of a chunk in flight, from the API call to the log *)
Transcribe ==
    \E id \in tco.in_flight, api \in [1..MaxRetries -> Replies] :
        LET w == transcribe_chunk(World, api, FALSE)
        IN  Step(transcribe_and_handle(w, id, w.stt.text))

(* The transcription coordinator with the STT client and an API that may   *)
(* fail                                                                    *)
NextStt ==
    \/ Dispatch
    \/ Transcribe

SttSpec == Init /\ [][NextStt]_vars

(* VADProcessor.reset is synchronous and takes no lock: a caller may run   *)
(* it between any two steps, also while update_state waits in an emit      *)
Reset == Step(reset(World))

NextReset == Next \/ Reset

ResetSpec == Heard /\ [][NextReset]_vars

(* The selector on its own: select_backchannel and record_usage applied to *)
(* a transcript of each context and to every content of                    *)
(* recent_backchannels, a deque of at most three names                     *)
SelectorTexts == {TxtQuestion, TxtStory, TxtNeutral}

Recents == UNION {[1..n -> Kinds] : n \in 0..RecentLen}

SelectorInit ==
    \E text \in SelectorTexts, recent \in Recents :
        Begin([add_transcript(Start, text, TRUE, "user") EXCEPT !.sel.recent = recent],
              Quiet)

Select ==
    \E pick \in select_backchannel(sel.recent, get_user_transcript_current_turn(World)) :
        Step(Out(record_usage(World, pick),
                 Ev("BACKCHANNEL_TRIGGERED", "selector", pick, "", 0)))

NextSelector == Select

SelectorSpec == SelectorInit /\ [][NextSelector]_vars

(* The selector from start-up: selections one after another, while the     *)
(* user's transcript grows and changes the context                         *)
SelectionsInit ==
    \E text \in SelectorTexts : Begin(add_transcript(Start, text, TRUE, "user"), Quiet)

Hear ==
    \E text \in SelectorTexts : Step(add_transcript(World, text, TRUE, "user"))

NextSelections ==
    \/ Select
    \/ Hear

SelectionsSpec == SelectionsInit /\ [][NextSelections]_vars

(* The audio pipeline fed by the transport and drained by                  *)
(* vad_processing_loop, which awaits the VAD between two chunks            *)
PipeStep(p) ==
    /\ Len(p.received) <= MaxSamples
    /\ pipe' = p
    /\ UNCHANGED <<cm, vad, btc, sel, rc, tco, mix, lib, now, bus, boot, stt, rtc, emitted>>

ReceiveAudio ==
    \E n \in 1..MaxFrame : \E audio_data \in [1..n -> Levels] :
        PipeStep(receive_audio(pipe, audio_data))

YieldVadChunk ==
    /\ Len(pipe.vad_accumulator) >= ChunkSamples
    /\ PipeStep(get_vad_chunks(pipe))

YieldWhisperChunk ==
    /\ Len(pipe.whisper_accumulator) >= WhisperChunkSamples
    /\ PipeStep(get_whisper_chunks(pipe))

NextPipeline ==
    \/ ReceiveAudio
    \/ YieldVadChunk
    \/ YieldWhisperChunk

PipelineSpec == Init /\ [][NextPipeline]_vars

(* The ConversationManager on its own, its public methods called in any   *)
(* order with any argument                                                 *)
ManagerTexts == {TxtEcho, TxtQuestion}

AddTranscript ==
    \E text \in ManagerTexts, is_final \in BOOLEAN, speaker \in {"user", "agent"} :
        Step(add_transcript(World, text, is_final, speaker))

ResetTurn == Step(reset_turn(World))

UpdateState ==
    \E new_state \in ConversationState : Step(update_state(World, new_state, "caller"))

NextManager ==
    \/ AddTranscript
    \/ ResetTurn
    \/ UpdateState

ManagerSpec == Init /\ [][NextManager]_vars

(* The linguistic analyzer on its own: the current-turn transcript is any  *)
(* sequence of up to MaxWords words, some of them "and", with and without  *)
(* a capital and a full stop; Analyze is the turn detector's               *)
(* calculate_linguistic_score, whose result is held in emitted             *)
AnalyzerWords ==
    {Tok("and", "", FALSE), Tok("and", ".", TRUE), Tok("dogs", "", FALSE),
     Tok("run", ".", FALSE)}

AnalyzerTexts == UNION {[1..n -> AnalyzerWords] : n \in 1..MaxWords}

AnalyzerInit ==
    \E text \in AnalyzerTexts : Begin(add_transcript(Start, text, TRUE, "user"), Quiet)

Analyze ==
    /\ emitted = <<>>
    /\ Step(Out(World, Ev("LINGUISTIC_SCORE", "analyzer", "", "",
                          analyze_completeness(get_user_transcript_current_turn(World)))))

NextAnalyzer == Analyze

AnalyzerSpec == AnalyzerInit /\ [][NextAnalyzer]_vars

(* The process from its start, under every configuration the field        *)
(* validators admit: start-up, then speech and the silences after it       *)
StartupInit == \E c \in Configs : BeginWith(Start, Quiet, Unstarted(c))

Startup ==
    /\ boot.pc = "start"
    /\ boot' = startup(boot)
    /\ UNCHANGED <<cm, vad, btc, sel, rc, tco, mix, lib, now, bus, pipe, stt, rtc, emitted>>

SpeechStarted == boot.pc = "running" /\ ExternalUpdateState

(* EventBus.emit of SILENCE_DETECTED with a silence of d milliseconds *)
SilenceDetected ==
    /\ boot.pc = "running" /\ rc.pc = "idle"
    /\ \E d \in {TriggerMinMs, MediumPauseMs, LongPauseMs}, draw \in Draws, picks \in Picks :
           Step(emit_silence_detected(World, d, draw, picks))

NextStartup ==
    \/ Startup
    \/ SpeechStarted
    \/ SilenceDetected

StartupSpec == StartupInit /\ [][NextStartup]_vars

(* The peer disconnects while audio has been received and STT requests    *)
(* are in flight                                                           *)
ReceiveFrame ==
    /\ rtc.pcs # {}
    /\ \E n \in 1..MaxFrame : PipeStep(receive_audio(pipe, [i \in 1..n |-> 1]))

Disconnect ==
    /\ rtc.pcs # {}
    /\ \E state \in {"failed", "closed"} : rtc' = close_peer_connection(rtc, state)
    /\ UNCHANGED <<cm, vad, btc, sel, rc, tco, mix, lib, now, bus, pipe, boot, stt, emitted>>

NextDisconnect ==
    \/ ReceiveFrame
    \/ Dispatch
    \/ STTDone
    \/ Disconnect

DisconnectSpec == Init /\ [][NextDisconnect]_vars

(* An EventBus with callbacks of every behaviour *)
BusInit == \E beh \in [Callbacks -> Behaviours] : Begin(Start, BusWith(beh))

BusStep(b) ==
    /\ Len(b.emits) <= MaxEvents
    /\ bus' = b
    /\ UNCHANGED <<cm, vad, btc, sel, rc, tco, mix, lib, now, pipe, boot, stt, rtc, emitted>>

Subscribe == \E cb \in Callbacks : BusStep(subscribe(bus, cb))

Unsubscribe == \E cb \in Callbacks : BusStep(unsubscribe(bus, cb))

(* a component calls emit from outside any delivery *)
Emit == BusStep(emit(bus, 0, 0))

NextBus ==
    \/ Subscribe
    \/ Unsubscribe
    \/ Emit

BusSpec == BusInit /\ [][NextBus]_vars

-----------------------------------------------------------------------------
(* Properties *)

(* positions in emitted of the events of a type *)
Emitted(type) == {i \in 1..Len(emitted) : emitted[i].type = type}

LegalTransitions ==
    {<<IDLE, USER_SPEAKING>>,
     <<USER_SPEAKING, EVALUATING_PAUSE>>,
     <<USER_SPEAKING, AGENT_THINKING>>,
     <<EVALUATING_PAUSE, AGENT_THINKING>>,
     <<EVALUATING_PAUSE, USER_SPEAKING>>,
     <<AGENT_THINKING, AGENT_SPEAKING>>,
     <<AGENT_SPEAKING, IDLE>>}

(* C1, as amended: every change of the conversation state follows one of   *)
(* the listed transitions or is AGENT_THINKING -> IDLE, the response        *)
(* coordinator's return on empty LLM output or on a missing TTS result.    *)
C1_ChangesLegalOrShortCircuit ==
    \A i \in Emitted("STATE_CHANGED") :
        emitted[i].s1 # emitted[i].s2 =>
            <<emitted[i].s1, emitted[i].s2>> \in
                LegalTransitions \cup {<<AGENT_THINKING, IDLE>>}

(* C1 as stated: every change of the conversation state follows one of the *)
(* listed transitions.                                                     *)
C1_ChangesLegal ==
    \A i \in Emitted("STATE_CHANGED") :
        emitted[i].s1 # emitted[i].s2 =>
            <<emitted[i].s1, emitted[i].s2>> \in LegalTransitions

(* the LLM returned no text and the response coordinator went back to IDLE *)
C1_ShortCircuitSeen ==
    /\ \E i \in Emitted("STATE_CHANGED") :
           /\ emitted[i].by = "response"
           /\ emitted[i].s1 = AGENT_THINKING
           /\ emitted[i].s2 = IDLE
    /\ \A k \in 1..Len(cm.log) : cm.log[k].speaker = "user"

(* C2: when SPEECH_STARTED is emitted while the conversation state is IDLE *)
(* or EVALUATING_PAUSE, the state is USER_SPEAKING once the event has been *)
(* handled.                                                                *)
C2_SpeechStartedSetsUserSpeaking ==
    [][(Emitted("SPEECH_STARTED")' # {} /\ cm.state \in {IDLE, EVALUATING_PAUSE})
          => cm'.state = USER_SPEAKING]_vars

(* C3: every TURN_ENDED event carries a fused final score strictly greater *)
(* than 65, and the event right before it is the turn detector's change of *)
(* the state to AGENT_THINKING.                                            *)
C3_TurnEndedAboveThreshold ==
    \A i \in Emitted("TURN_ENDED") :
        /\ emitted[i].n > TurnEndThreshold * 100
        /\ i > 1
        /\ emitted[i - 1].type = "STATE_CHANGED"
        /\ emitted[i - 1].by = "turn_detector"
        /\ emitted[i - 1].s2 = AGENT_THINKING

(* a turn has just ended *)
C3_TurnEndedSeen == Emitted("TURN_ENDED") # {}

(* C4: after every TURN_ENDED event the conversation state is eventually   *)
(* IDLE again, whether the LLM returns text or not and whether the TTS     *)
(* returns a clip or not.                                                  *)
C4_TurnEndedLeadsToIdle ==
    (Emitted("TURN_ENDED") # {}) ~> (cm.state = IDLE)

(* the TTS returned no clip: the reply is logged, nothing was played, and  *)
(* the state is IDLE                                                       *)
C4_IdleAfterMissingClip ==
    /\ cm.state = IDLE
    /\ rc.pc = "idle"
    /\ mix.primary = 0
    /\ \E k \in 1..Len(cm.log) : cm.log[k].speaker = "agent"

(* C5: every STATE_CHANGED event has an old state that differs from its    *)
(* new state.                                                              *)
C5_NoSpuriousStateChanged ==
    \A i \in Emitted("STATE_CHANGED") : emitted[i].s1 # emitted[i].s2

(* C6: a handler run that plays a backchannel leaves the conversation      *)
(* state as it was and emits no STATE_CHANGED.                             *)
C6_PlayKeepsState ==
    [][Emitted("BACKCHANNEL_PLAYED")' # {}
          => cm'.state = cm.state /\ Emitted("STATE_CHANGED")' = {}]_vars

(* a backchannel has just been played: its clip is on the secondary        *)
(* channel and its event is recorded                                       *)
C6_PlayedSeen ==
    /\ Emitted("BACKCHANNEL_PLAYED") # {}
    /\ mix.secondary # <<>>
    /\ cm.history # <<>>

(* C7: any two BACKCHANNEL_PLAYED events are at least 5 s apart; so when   *)
(* two backchannels have been recorded, at least 5 s have passed since     *)
(* start-up.                                                               *)
C7_PlaysFiveSecondsApart ==
    Len(cm.history) >= 2 => now * TickMs >= MinIntervalMs

(* C8: once SPEECH_STARTED has arrived while a backchannel was pending and *)
(* its timer had time left, that backchannel is not played: no step taken  *)
(* while abort_backchannel is under way emits BACKCHANNEL_PLAYED for it.   *)
C8_AbortedIsNotPlayed ==
    [][(vad.pc = "aborting" /\ btc.task > 0)
          => \A i \in Emitted("BACKCHANNEL_PLAYED")' :
                 emitted'[i].s1 # btc.abort_kind]_vars

(* C9: at most one safe-zone timer is live.                                *)
C9_OneLiveTimer == TimerCount(btc.timers) <= 1

(* C10: the results of the STT requests are applied in the order their     *)
(* chunks were dispatched.                                                 *)
C10_AppliedInDispatchOrder ==
    \A i, j \in 1..Len(tco.applied) : i < j => tco.applied[i] < tco.applied[j]

(* the callbacks called for an event, in the order of the calls *)
Deliveries(ev) ==
    LET calls == SelectSeq(bus.log, LAMBDA c : c.ev = ev)
    IN  [i \in 1..Len(calls) |-> calls[i].cb]

(* C11: every emit calls each callback subscribed at the time of the emit  *)
(* exactly once, in subscription order, whether or not a callback raises.  *)
C11_DeliveredToEverySubscriber ==
    \A k \in 1..Len(bus.emits) : Deliveries(bus.emits[k].ev) = bus.emits[k].subs

(* an event was delivered to the callback subscribed after one that raised *)
C11_DeliveredPastRaise ==
    \E k \in 1..Len(bus.emits) :
        /\ Len(bus.emits[k].subs) >= 2
        /\ bus.beh[bus.emits[k].subs[1]] = "raise"
        /\ Len(Deliveries(bus.emits[k].ev)) >= 2

(* C12: the events of one emitter reach any one subscriber in the order    *)
(* they were emitted (events are numbered in emission order).              *)
C12_DeliveredInEmissionOrder ==
    \A i, j \in 1..Len(bus.log) :
        (/\ i < j
         /\ bus.log[i].cb = bus.log[j].cb
         /\ bus.emits[bus.log[i].ev].by = bus.emits[bus.log[j].ev].by)
            => bus.log[i].ev <= bus.log[j].ev

(* C13: the VAD enters SPEAKING only on a chunk that completes three       *)
(* consecutive speech chunks and emits SPEECH_STARTED exactly once then    *)
(* and at no other time; it enters SILENCE_AFTER_SPEECH only from SPEAKING *)
(* on a chunk that completes five consecutive silence chunks, emitting     *)
(* SILENCE_DETECTED; no other chunk changes the VAD state.                 *)
C13_Hysteresis ==
    [][/\ vad'.state # vad.state =>
              \/ /\ vad'.state = SPEAKING
                 /\ vad'.cs >= SpeechStartThreshold
              \/ /\ vad'.state = SILENCE_AFTER_SPEECH
                 /\ vad.state = SPEAKING
                 /\ vad'.cq >= SpeechEndThreshold
                 /\ Emitted("SILENCE_DETECTED")' # {}
       /\ Cardinality(Emitted("SPEECH_STARTED")') =
              IF vad'.state = SPEAKING /\ vad.state # SPEAKING THEN 1 ELSE 0]_vars

(* speech has resumed after a detected silence: the VAD has entered        *)
(* SPEAKING, then SILENCE_AFTER_SPEECH, then SPEAKING again                *)
C13_ResumedSeen ==
    \E i \in Emitted("SPEECH_STARTED") :
        emitted[i].s2 = "resumed" /\ vad.state = SPEAKING

(* C14: every SILENCE_DETECTED heartbeat carries a silence duration of at  *)
(* least 300 ms and is emitted only once the silence that began at the     *)
(* edge has lasted that long.                                              *)
C14_HeartbeatAfterMinSilence ==
    \A i \in Emitted("SILENCE_DETECTED") :
        emitted[i].s1 = "heartbeat" =>
            /\ emitted[i].n >= MinSilenceMs
            /\ vad.state = SILENCE_AFTER_SPEECH
            /\ vad.silence_start # Never
            /\ vad.silence_start * TickMs >= MinSilenceMs

(* a heartbeat emitted at exactly 300 ms of silence *)
C14_HeartbeatSeen ==
    \E i \in Emitted("SILENCE_DETECTED") :
        emitted[i].s1 = "heartbeat" /\ emitted[i].n = MinSilenceMs

(* C15: the start of the silence is recorded exactly while the VAD state   *)
(* is SILENCE_AFTER_SPEECH, after any sequence of chunks and resets.       *)
C15_SilenceStartIffSilence ==
    (vad.silence_start # Never) <=> (vad.state = SILENCE_AFTER_SPEECH)

(* the VAD is back in NOT_SPEAKING, which only reset brings about, after   *)
(* a silence long enough for a backchannel to have been played             *)
C15_ResetAfterSilence ==
    vad.state = NOT_SPEAKING /\ vad.silence_start = Never /\ cm.history # <<>>

(* C16: an evaluation emits exactly one TURN_EVALUATION; with a final      *)
(* score above 40 and at most 65 the conversation state becomes            *)
(* EVALUATING_PAUSE and no TURN_ENDED is emitted; with a final score of at *)
(* most 40 the conversation state is left as it is and no TURN_ENDED is    *)
(* emitted.  Scores are held times 100.                                    *)
C16_BandsBelowThreshold ==
    [][/\ Cardinality(Emitted("TURN_EVALUATION")') =
              IF cm.state = USER_SPEAKING /\ Emitted("SILENCE_DETECTED")' # {}
              THEN 1 ELSE 0
       /\ \A i \in Emitted("TURN_EVALUATION")' :
              /\ (/\ ContinueThreshold * 100 < emitted'[i].n
                  /\ emitted'[i].n <= TurnEndThreshold * 100)
                     => /\ cm'.state = EVALUATING_PAUSE
                        /\ Emitted("TURN_ENDED")' = {}
              /\ emitted'[i].n <= ContinueThreshold * 100
                     => /\ cm'.state = cm.state
                        /\ Emitted("STATE_CHANGED")' = {}
                        /\ Emitted("TURN_ENDED")' = {}]_vars

(* an evaluation in the middle band has moved the state to                 *)
(* EVALUATING_PAUSE                                                        *)
C16_MiddleBandSeen ==
    /\ cm.state = EVALUATING_PAUSE
    /\ \E i \in Emitted("TURN_EVALUATION") :
           /\ ContinueThreshold * 100 < emitted[i].n
           /\ emitted[i].n <= TurnEndThreshold * 100

(* C17: the trigger detector emits BACKCHANNEL_TRIGGERED only when the     *)
(* conversation state is USER_SPEAKING, the silence lasted between 300 and *)
(* 700 ms, the last backchannel is at least 5 s old, the turn has at least *)
(* two sentences and at least five words; 299 ms and 701 ms are rejected   *)
(* in every state.                                                         *)
C17_TriggeredOnlyThroughGates ==
    [][/\ \A i \in Emitted("BACKCHANNEL_TRIGGERED")' :
              emitted'[i].by = "trigger" =>
                  /\ cm.state = USER_SPEAKING
                  /\ cm'.state = USER_SPEAKING
                  /\ TriggerMinMs <= emitted'[i].n /\ emitted'[i].n <= TriggerMaxMs
                  /\ emitted'[i].n = vad.silence_start * TickMs
                  /\ cm.last_backchannel # Never
                         => cm.last_backchannel * TickMs >= MinIntervalMs
                  /\ cm.sc >= 2
                  /\ Len(get_user_transcript_current_turn(World)) >= 5
       /\ ~check_trigger_conditions(World, TriggerMinMs - 1)
       /\ ~check_trigger_conditions(World, TriggerMaxMs + 1)]_vars

(* the trigger detector has fired at the lower end of the range, 300 ms *)
C17_TriggeredSeen ==
    \E i \in Emitted("BACKCHANNEL_TRIGGERED") :
        emitted[i].by = "trigger" /\ emitted[i].n = TriggerMinMs

(* C18: a backchannel is appended to the history only in a step that has   *)
(* put its clip on the mixer's secondary channel; when the kind to play is *)
(* not in the library, the secondary channel, the history and the time of  *)
(* the last backchannel stay as they are and no BACKCHANNEL_PLAYED is      *)
(* emitted.                                                                *)
C18_RecordedOnlyWithClip ==
    [][/\ cm'.history # cm.history =>
              \E kind \in lib :
                  /\ cm'.history = Append(cm.history, kind)
                  /\ mix'.secondary = Append(mix.secondary, kind)
       /\ \A i \in Emitted("BACKCHANNEL_TRIGGERED")' :
              (emitted'[i].s2 = "proceed" /\ emitted'[i].s1 \notin lib) =>
                  /\ mix'.secondary = mix.secondary
                  /\ cm'.history = cm.history
                  /\ cm'.last_backchannel = cm.last_backchannel
                  /\ Emitted("BACKCHANNEL_PLAYED")' = {}]_vars

(* the safe zone has ended for a kind the library does not hold, and       *)
(* nothing was played                                                      *)
C18_MissingKindSkipped ==
    /\ Emitted("BACKCHANNEL_PLAYED") = {}
    /\ \E i \in Emitted("BACKCHANNEL_TRIGGERED") :
           emitted[i].s2 = "proceed" /\ emitted[i].s1 \notin lib

(* C19: the selector picks from the candidates of the context without the  *)
(* most recently used kind, and from all kinds only when that leaves none; *)
(* after mmhmm, mmhmm the candidates mmhmm, okay, i_see become okay,       *)
(* i_see.                                                                  *)
C19_LastUsedExcluded ==
    [][/\ \A i \in Emitted("BACKCHANNEL_TRIGGERED")' :
              LET candidates == get_candidates(get_user_transcript_current_turn(World))
                  n == Len(sel.recent)
                  left == IF n = 0 THEN candidates ELSE candidates \ {sel.recent[n]}
              IN  /\ emitted'[i].s1 \in (IF left = {} THEN Kinds ELSE left)
                  /\ sel'.recent[Len(sel'.recent)] = emitted'[i].s1
       /\ apply_anti_repetition(<<"mmhmm", "mmhmm">>, {"mmhmm", "okay", "i_see"})
              = {"okay", "i_see"}]_vars

(* after mmhmm twice in a row the selector has picked okay *)
C19_PickedAfterRepeat ==
    /\ Len(sel.recent) = 3
    /\ sel.recent[1] = "mmhmm" /\ sel.recent[2] = "mmhmm" /\ sel.recent[3] = "okay"
    /\ Emitted("BACKCHANNEL_TRIGGERED") # {}

RECURSIVE Concatenated(_)
Concatenated(chunks) ==
    IF chunks = <<>> THEN <<>> ELSE Head(chunks) \o Concatenated(Tail(chunks))

(* C20: every VAD chunk yielded holds exactly the chunk size in samples;   *)
(* the chunks in yield order, followed by what the accumulator holds, are  *)
(* the samples received, in order; once the accumulator is drained the     *)
(* number of chunks is the number of samples received divided by the chunk *)
(* size, rounded down.                                                     *)
C20_WholeChunksInOrder ==
    /\ \A k \in 1..Len(pipe.yielded) : Len(pipe.yielded[k]) = ChunkSamples
    /\ Concatenated(pipe.yielded) \o pipe.vad_accumulator = pipe.received
    /\ Len(pipe.vad_accumulator) < ChunkSamples
           => Len(pipe.yielded) = Len(pipe.received) \div ChunkSamples

(* drained after two chunks or more, with samples left over that do not    *)
(* fill a chunk                                                            *)
C20_DrainedWithRemainder ==
    /\ Len(pipe.yielded) >= 2
    /\ Len(pipe.vad_accumulator) > 0
    /\ Len(pipe.vad_accumulator) < ChunkSamples

(* C21: every transcriber chunk has the chunk size in samples and starts   *)
(* one step (the chunk size less the overlap) after its predecessor in the *)
(* stream received, so the end of each chunk is the start of the next over *)
(* the length of the overlap.                                              *)
C21_WhisperChunksOverlap ==
    LET step_size == WhisperChunkSamples - WhisperOverlapSamples
        chunks == pipe.whisper_yielded
    IN  /\ \A k \in 1..Len(chunks) :
               /\ Len(chunks[k]) = WhisperChunkSamples
               /\ chunks[k] = SubSeq(pipe.received, (k - 1) * step_size + 1,
                                     (k - 1) * step_size + WhisperChunkSamples)
        /\ \A k \in 1..(Len(chunks) - 1) :
               SubSeq(chunks[k], step_size + 1, WhisperChunkSamples)
                   = SubSeq(chunks[k + 1], 1, WhisperOverlapSamples)

(* three transcriber chunks have been yielded *)
C21_ThreeChunksSeen == Len(pipe.whisper_yielded) >= 3

(* C22: a chunk text equal to the text of the chunk applied just before it *)
(* deduplicates to nothing, and the conversation log is left as it is.     *)
C22_RepeatAddsNothing ==
    [][(/\ Len(tco'.applied) = Len(tco.applied) + 1
        /\ tco.recent # <<>>
        /\ tco'.recent[Len(tco'.recent)] = tco.recent[Len(tco.recent)])
           => cm'.log = cm.log]_vars

(* C23: when the chunk "going to the store yesterday" is applied just      *)
(* after the chunk "I was going to the store", the text accepted into the  *)
(* conversation log is "yesterday".                                        *)
C23_OverlapAtSeamDropped ==
    [][(/\ Len(tco'.applied) = Len(tco.applied) + 1
        /\ tco.recent # <<>>
        /\ tco.recent[Len(tco.recent)] = TxtStore
        /\ tco'.recent[Len(tco'.recent)] = TxtYesterday)
           => /\ Len(cm'.log) = Len(cm.log) + 1
              /\ cm'.log[Len(cm'.log)].text = <<Tok("yesterday", "", FALSE)>>]_vars

(* C24: no step removes, reorders or rewrites a final segment of the       *)
(* transcript log, and the log never holds more than one partial segment.  *)
C24_FinalsKeptPartialsOverwritten ==
    [][/\ \A k \in 1..Len(cm.log) :
              cm.log[k].is_final => Len(cm'.log) >= k /\ cm'.log[k] = cm.log[k]
       /\ Cardinality({k \in 1..Len(cm'.log) : ~cm'.log[k].is_final}) <= 1]_vars

(* C25: update_state with a target that is not a legal successor of the    *)
(* current state, the current state included, leaves the state as it is    *)
(* and emits no STATE_CHANGED.                                             *)
C25_IllegalTargetIgnored ==
    [][/\ cm'.state # cm.state => <<cm.state, cm'.state>> \in LegalTransitions
       /\ \A i \in Emitted("STATE_CHANGED")' :
              /\ emitted'[i].s1 = cm.state
              /\ emitted'[i].s2 = cm'.state
              /\ <<cm.state, cm'.state>> \in LegalTransitions]_vars

(* C26: when the response coordinator brings the conversation back to IDLE *)
(* after a TURN_ENDED, the state is IDLE, the word and sentence counts of  *)
(* the turn are 0 and the start of the user's speech is null.              *)
C26_CountersResetAtTurnEnd ==
    [][(\E i \in Emitted("STATE_CHANGED")' :
            emitted'[i].by = "response" /\ emitted'[i].s2 = IDLE)
           => /\ cm'.state = IDLE
              /\ cm'.wc = 0
              /\ cm'.sc = 0
              /\ cm'.speech_start = Never]_vars

(* C27: in state USER_SPEAKING, with a current-turn transcript of several  *)
(* sentences that ends with a period and has an emotion keyword, and the   *)
(* last backchannel at least 5 s old, a heartbeat at 500 ms of silence     *)
(* finds the trigger gates open once the turn detector has handled it, the *)
(* trigger strength is 0.9 and the state is still USER_SPEAKING.           *)
C27_BackchannelFires ==
    (/\ cm.state = USER_SPEAKING
     /\ vad.pc = "run" /\ rc.pc = "idle"
     /\ vad.state = SILENCE_AFTER_SPEECH
     /\ vad.silence_start * TickMs = 500
     /\ get_user_transcript_current_turn(World) = TxtNarrative
     /\ cm.sc >= 2
     /\ (cm.last_backchannel = Never \/ SinceLastBackchannel(World) >= MinIntervalMs))
        => LET evaluated == turn_detector_on_silence_detected(World, 500)
           IN  /\ evaluated.cm.state = USER_SPEAKING
               /\ check_trigger_conditions(evaluated, 500)
               /\ calculate_probability(evaluated) = 9

(* C28, as amended: a transcript of three words or more whose last token,  *)
(* without its punctuation and in lower case, is "and" has the             *)
(* completeness score 30; a transcript of one or two words has the score   *)
(* 20 whatever its last token.                                             *)
C28_AndScoresThirtyFromThreeWords ==
    \A i \in Emitted("LINGUISTIC_SCORE") :
        LET text == get_user_transcript_current_turn(World)
        IN  /\ (Len(text) >= 3 /\ text[Len(text)].w = "and") => emitted[i].n = 30
            /\ Len(text) \in {1, 2} => emitted[i].n = 20

(* C28 as stated: a non-empty transcript of any word count whose last      *)
(* token is "and" has the completeness score 30.                           *)
C28_AndScoresThirty ==
    \A i \in Emitted("LINGUISTIC_SCORE") :
        LET text == get_user_transcript_current_turn(World)
        IN  (Len(text) >= 1 /\ text[Len(text)].w = "and") => emitted[i].n = 30

(* a transcript of the greatest length that ends in "And." was scored 30 *)
C28_LongAndSeen ==
    \E i \in Emitted("LINGUISTIC_SCORE") :
        LET text == get_user_transcript_current_turn(World)
        IN  /\ Len(text) = MaxWords
            /\ text[Len(text)] = Tok("and", ".", TRUE)
            /\ emitted[i].n = 30

(* C29: an invalid configuration is fatal at start-up: the process runs,   *)
(* holds components or has evaluated a turn only if the weights sum to     *)
(* 1.0 within 0.01.                                                        *)
C29_InvalidConfigurationFatal ==
    (boot.pc = "running" \/ boot.components # {} \/ Emitted("TURN_EVALUATION") # {})
        => validate_all(boot.config)
(* the attempt whose reply ends a request that retries until a call does   *)
(* not fail: the first reply that is no failure, or the last attempt       *)
FirstAnswer(api) ==
    IF \A k \in 1..MaxRetries : api[k].error THEN MaxRetries
    ELSE CHOOSE k \in 1..MaxRetries :
             ~api[k].error /\ \A j \in 1..(k - 1) : api[j].error

(* C30: a failing STT request is retried with exponential backoff up to    *)
(* three attempts: the calls go on to the first reply that is no failure,  *)
(* with a doubled sleep before each further call, and the request yields   *)
(* that reply's text; the chunk is discarded only after the third failure. *)
C30_TransientFailureRetried ==
    stt.api # <<>> =>
        /\ stt.calls = FirstAnswer(stt.api)
        /\ stt.slept = [i \in 1..(stt.calls - 1) |-> BaseDelay * 2 ^ (i - 1)]
        /\ stt.text = stt.api[stt.calls].transcript
(* C31: on peer disconnect the pipeline accumulators and the mixer queues  *)
(* are cleared and the outstanding STT calls are abandoned: once the peer  *)
(* is gone the buffers are empty, no request is in flight, and no step     *)
(* changes the transcript log or the conversation state.                   *)
C31_DisconnectClearsAndAbandons ==
    [][/\ rtc'.pcs = {} =>
              /\ pipe'.vad_accumulator = <<>> /\ pipe'.whisper_accumulator = <<>>
              /\ mix'.secondary = <<>> /\ mix'.primary = 0
              /\ tco'.in_flight = {}
       /\ rtc.pcs = {} => cm'.log = cm.log /\ cm'.state = cm.state]_vars
(* the BACKCHANNEL_TRIGGERED events of the last action that by emitted *)
TriggeredBy(by) ==
    {i \in Emitted("BACKCHANNEL_TRIGGERED") : emitted[i].by = by}

(* C32: the selector consumes only the first-phase BACKCHANNEL_TRIGGERED:  *)
(* in every handler chain it re-emits once for each event of the trigger   *)
(* detector, and not for its own enriched event nor for the timing         *)
(* controller's proceed_to_play event.                                     *)
C32_SelectsOncePerFirstPhaseTrigger ==
    Cardinality(TriggeredBy("selector")) = Cardinality(TriggeredBy("trigger"))
(* C33: a turn can end from EVALUATING_PAUSE: after a silence heartbeat    *)
(* whose evaluation gives a final score above the turn-end threshold, the  *)
(* conversation is no longer in EVALUATING_PAUSE.                          *)
C33_TurnEndsFromEvaluatingPause ==
    \A i \in Emitted("SILENCE_DETECTED") :
        FinalScore(World, emitted[i].n) > TurnEndThreshold * 100
            => cm.state # EVALUATING_PAUSE
(* C34: in a response the agent transcript segment is appended to the log  *)
(* only after the playback wait, and primary audio is submitted only       *)
(* while the state is AGENT_SPEAKING.                                      *)
C34_AgentSegmentAfterPlayback ==
    [][/\ (/\ Len(cm'.log) > Len(cm.log)
           /\ cm'.log[Len(cm'.log)].speaker = "agent") => rc.pc = "playing"
       /\ mix'.primary > mix.primary => cm'.state = AGENT_SPEAKING]_vars
(* the entries of generate_and_play_response in the last action: its       *)
(* update_state(AGENT_THINKING)                                            *)
ResponseEntries ==
    {i \in Emitted("STATE_CHANGED") :
        emitted[i].by = "response" /\ emitted[i].s2 = AGENT_THINKING}

(* C35: at most one response generation is in progress: a handler chain    *)
(* emits TURN_ENDED and enters generate_and_play_response at most once,    *)
(* and while the response coordinator has not returned no step emits       *)
(* TURN_ENDED or enters it again.                                          *)
C35_OneResponseAtATime ==
    [][/\ Cardinality(Emitted("TURN_ENDED")') <= 1
       /\ Cardinality(ResponseEntries') <= 1
       /\ rc.pc # "idle" => Emitted("TURN_ENDED")' = {} /\ ResponseEntries' = {}]_vars

C35_ResponseInProgressSeen ==
    rc.pc = "playing" /\ cm.state = AGENT_SPEAKING /\ mix.primary = 1
VadEvents == {"SPEECH_STARTED", "SPEECH_CONTINUING", "SILENCE_DETECTED"}

TurnDetectorMoves ==
    {i \in Emitted("STATE_CHANGED") : emitted[i].by = "turn_detector"}

(* C38: a SILENCE_DETECTED event on which the turn detector moved the      *)
(* state out of USER_SPEAKING produces no BACKCHANNEL_TRIGGERED of the     *)
(* trigger detector, neither in the step of the event nor, when the        *)
(* response coordinator was entered, in the step in which its handler      *)
(* returns and the trigger detector is called.                             *)
C38_NoTriggerAfterTurnDetectorMoved ==
    [][/\ TurnDetectorMoves' # {} => TriggeredBy("trigger")' = {}
       /\ rc.pc # "idle" => TriggeredBy("trigger")' = {}]_vars

(* the turn detector moved the state on a heartbeat that passes the        *)
(* trigger detector's other gates                                          *)
C38_MovedOnTriggerableSilence ==
    /\ cm.state = EVALUATING_PAUSE /\ TurnDetectorMoves # {}
    /\ cm.sc >= 2
    /\ cm.last_backchannel = Never
    /\ \E i \in Emitted("SILENCE_DETECTED") :
           TriggerMinMs <= emitted[i].n /\ emitted[i].n <= TriggerMaxMs
C40_WordCountMatchesTranscript ==
    cm.wc = Len(get_user_transcript_current_turn(World))
====
